---- MODULE Spec2Model ----
\* A model of lexi_backend.py: the PIN session gate, the TTL-cached instance
\* directory with active-instance resolution, the vendor control client and
\* the schedule ingestion pipeline.
\*
\* Strings are sequences of one-character strings, so that strip(), lower()
\* and Python's string ordering are computed rather than assumed.
\* Six specifications are given over the same state:
\*   Spec      the HTTP routes, driven by one client's requests;
\*   SpecDir   the directory functions called directly (fetch_all_instances,
\*             current_instance_id), with every argument value;
\*   SpecCmd   eeg_post called directly, with every argument value;
\*   SpecRead  eeg_status, fetch_all_instances and pick_badge_color called
\*             directly, the vendor answering with any body;
\*   SpecSched the two event fetches called directly on any window and any
\*             list of booking records;
\*   SpecConc  fetch_all_instances run by two threads, one line at a time.
EXTENDS Integers, Sequences, FiniteSets, TLC

VARIABLES
    cookies,            \* the client's cookie jar: cookie name -> value
    _instances_cache,   \* the module-level directory cache {"ts", "data"}
    API_KEY,            \* the vendor credential read at start-up, or None
    now,                \* the wall clock, in seconds
    vendorDir,          \* "all_instances" as the vendor would answer it now
    req,                \* the last operation: what it was given, did and returned
    seq,                \* the parity of the number of direct calls made
    sends,              \* eeg_post calls that passed both fatal checks
    posts,              \* command requests the vendor has received
    threads,            \* each worker thread's place in fetch_all_instances and its locals
    writer              \* which refresh last stored the cache's "data", and which its
                        \* "ts"; how many refreshes have got an answer to store; the
                        \* now_ts of the refresh that stored "data"

vars == <<cookies, _instances_cache, API_KEY, now, vendorDir, req, seq, sends, posts, threads, writer>>

\* ---------------------------------------------------------------- bounds

\* The clock starts here and stops advancing at MaxTime.
StartTime == 100
MaxTime == 220
\* eeg_post is called directly at most this many times in one behaviour.
MaxCmds == 2
\* At most this many refreshes get a directory to store in one behaviour.
MaxRefreshes == 2

\* ---------------------------------------------------------------- strings

\* Python's None, told apart from every string (a string's elements are
\* single characters).
None == <<"None">>

\* Python truthiness of an optional string: None and "" are falsy.
Truthy(v) == v # None /\ v # <<>>

\* dict.get(key, default): a mapping is a record that holds None under a
\* key it does not have.
Get(d, k, default) == IF d[k] = None THEN default ELSE d[k]

\* The characters str.strip() removes.
Whitespace == {" ", "\t"}

RECURSIVE lstrip(_)
lstrip(s) ==
    IF s # <<>> /\ Head(s) \in Whitespace THEN lstrip(Tail(s)) ELSE s

RECURSIVE rstrip(_)
rstrip(s) ==
    IF s # <<>> /\ s[Len(s)] \in Whitespace
    THEN rstrip(SubSeq(s, 1, Len(s) - 1))
    ELSE s

\* str.strip()
strip(s) == rstrip(lstrip(s))

\* The ASCII letters, in both cases.
LowerLetters ==
    <<"a", "b", "c", "d", "e", "f", "g", "h", "i", "j", "k", "l", "m",
      "n", "o", "p", "q", "r", "s", "t", "u", "v", "w", "x", "y", "z">>
UpperLetters ==
    <<"A", "B", "C", "D", "E", "F", "G", "H", "I", "J", "K", "L", "M",
      "N", "O", "P", "Q", "R", "S", "T", "U", "V", "W", "X", "Y", "Z">>

\* The code point of a character (those the model's names are written in).
Ord(c) ==
    CASE c = "A" -> 65 [] c = "B" -> 66 [] c = "a" -> 97 [] c = "b" -> 98
      [] c = "p" -> 112 [] c = "q" -> 113 [] c = "x" -> 120
      [] OTHER -> 0

LowerChar(c) ==
    IF \E i \in 1..26 : UpperLetters[i] = c
    THEN LowerLetters[CHOOSE i \in 1..26 : UpperLetters[i] = c]
    ELSE c

\* str.lower()
lower(s) == [i \in 1..Len(s) |-> LowerChar(s[i])]

UpperChar(c) ==
    IF \E i \in 1..26 : LowerLetters[i] = c
    THEN UpperLetters[CHOOSE i \in 1..26 : LowerLetters[i] = c]
    ELSE c

\* str.upper()
upper(s) == [i \in 1..Len(s) |-> UpperChar(s[i])]

\* Python's s < t on strings: lexicographic by code point.
RECURSIVE StrLess(_, _)
StrLess(s, t) ==
    IF t = <<>> THEN FALSE
    ELSE IF s = <<>> THEN TRUE
    ELSE IF Ord(Head(s)) # Ord(Head(t)) THEN Ord(Head(s)) < Ord(Head(t))
    ELSE StrLess(Tail(s), Tail(t))

\* ---------------------------------------------------------------- configuration

\* DEFAULT_INSTANCE_ID, the last-resort fallback id.
DEFAULT_INSTANCE_ID == <<"d">>

\* ACCESS_PIN
ACCESS_PIN == <<"2", "0", "6", "5">>

\* The cache lifetime in seconds.
TTL == 60

\* The cookie value that marks a client as unlocked.
YES == <<"y", "e", "s">>

\* ---------------------------------------------------------------- the vendor

IdP == <<"p">>
IdQ == <<"q">>

\* One record of the vendor's "all_instances": a JSON object, of which
\* "instance_id", settings.name and "state" may each be missing.
Inst(id, name, state) == [instance_id |-> id, name |-> name, state |-> state]

\* The directories the vendor may hold: empty; two instances whose names
\* sort differently with and without regard to case; and, once the first of
\* them is removed, a record without a name next to a record without an id.
VendorDirs ==
    { <<>>,
      <<Inst(IdP, <<"B">>, <<"O", "N">>), Inst(IdQ, <<"a">>, <<"o", "f", "f">>)>>,
      <<Inst(IdQ, None, <<"O", "N">>), Inst(None, <<"a">>, None)>> }

\* What one HTTP exchange with the vendor ends in: an exception raised by
\* requests (timeout, connection error), or a response with a status code
\* and a body. `json` tells what resp.json() makes of the body: "object" is
\* a JSON object holding the list `body` under the expected key.
TransportFailure == [exc |-> TRUE, status_code |-> 0, json |-> "none", body |-> <<>>]
Response(code, body) ==
    [exc |-> FALSE, status_code |-> code, json |-> "object", body |-> body]

\* A success response whose body is no JSON at all: resp.json() raises.
Unparsable == [exc |-> FALSE, status_code |-> 200, json |-> "unparsable", body |-> <<>>]

\* A success response whose body is a non-empty JSON array: resp.json()
\* returns a list, which has no get().
NotAnObject == [exc |-> FALSE, status_code |-> 200, json |-> "array", body |-> <<>>]

\* requests.Response.ok
ok(resp) == resp.status_code < 400

\* The outcomes of GET /instances while the vendor holds directory dir.
DirectoryOutcomes(dir) ==
    {TransportFailure, Response(200, dir), Response(503, <<>>)}

\* The outcomes of POST /instances/{id}/turn_on|turn_off.
CommandOutcomes ==
    {TransportFailure, Response(200, <<>>), Response(503, <<>>)}

\* A request this process made to the vendor.
VendorCall(endpoint, id, action) == [endpoint |-> endpoint, id |-> id, action |-> action]
DirectoryCall == VendorCall("instances", <<>>, "")
CommandCall(id, action) == VendorCall("command", id, action)
EventsCall == VendorCall("events", <<>>, "")

\* ---------------------------------------------------------------- instance directory

\* A loop that keeps every record, with or without id.
RECURSIVE BuildItems_keep_all(_)
BuildItems_keep_all(records) ==
    IF records = <<>> THEN <<>>
    ELSE <<[id |-> Get(Head(records), "instance_id", None),
            name |-> IF Truthy(Get(Head(records), "name", None))
                     THEN Get(Head(records), "name", None)
                     ELSE Get(Head(records), "instance_id", None)]>>
         \o BuildItems_keep_all(Tail(records))

\* The loop of fetch_all_instances over the vendor's records: a record
\* without an id is skipped, a record without a name is named by its id.
RECURSIVE BuildItems(_)
BuildItems(records) ==
    IF records = <<>> THEN <<>>
    ELSE LET inst == Head(records)
             iid  == Get(inst, "instance_id", None)
             nm   == Get(inst, "name", None)
             name == IF Truthy(nm) THEN nm ELSE iid
         IN  (IF Truthy(iid) THEN <<[id |-> iid, name |-> name]>> ELSE <<>>)
             \o BuildItems(Tail(records))

\* A sort key that keeps the case of the name.
SortKey_cased(x) == x.name

\* The sort key of fetch_all_instances: x["name"].lower()
SortKey(x) == lower(x.name)

\* Insert x into a list sorted by key, after every entry whose key is not
\* greater (list.sort is stable).
RECURSIVE InsertByKey(_, _)
InsertByKey(x, items) ==
    IF items = <<>> THEN <<x>>
    ELSE IF StrLess(SortKey(x), SortKey(Head(items))) THEN <<x>> \o items
    ELSE <<Head(items)>> \o InsertByKey(x, Tail(items))

\* items.sort(key=lambda x: x["name"].lower())
RECURSIVE SortItems(_)
SortItems(items) ==
    IF items = <<>> THEN <<>>
    ELSE InsertByKey(items[Len(items)], SortItems(SubSeq(items, 1, Len(items) - 1)))

\* Lines 94-97 of fetch_all_instances: the sorted items replace the cached
\* data, the time read on entry replaces the cached timestamp, and the
\* items are returned.
Refreshed(items, now_ts) ==
    [ret |-> items, cache |-> [ts |-> now_ts, data |-> items], calls |-> <<DirectoryCall>>,
     raised |-> FALSE]

\* fetch_all_instances that empties the cache when a refresh fails.
fetch_all_instances_clearing(force, cache, now_ts, key, resp) ==
    IF (~force) /\ cache.data # <<>> /\ (now_ts - cache.ts < TTL)
    THEN [ret |-> cache.data, cache |-> cache, calls |-> <<>>, raised |-> FALSE]
    ELSE IF ~Truthy(key)
    THEN [ret |-> <<>>, cache |-> cache, calls |-> <<>>, raised |-> FALSE]
    ELSE IF resp.exc \/ ~ok(resp) \/ resp.json = "unparsable"
    THEN [ret |-> <<>>, cache |-> [ts |-> now_ts, data |-> <<>>],
          calls |-> <<DirectoryCall>>, raised |-> FALSE]
    ELSE IF resp.json = "array"
    THEN [ret |-> <<>>, cache |-> cache, calls |-> <<DirectoryCall>>, raised |-> TRUE]
    ELSE Refreshed(SortItems(BuildItems(resp.body)), now_ts)

\* fetch_all_instances without the freshness test: every call refetches.
fetch_all_instances_uncached(force, cache, now_ts, key, resp) ==
    IF ~Truthy(key)
    THEN [ret |-> <<>>, cache |-> cache, calls |-> <<>>, raised |-> FALSE]
    ELSE IF resp.exc \/ ~ok(resp) \/ resp.json = "unparsable"
    THEN [ret |-> <<>>, cache |-> cache, calls |-> <<DirectoryCall>>, raised |-> FALSE]
    ELSE IF resp.json = "array"
    THEN [ret |-> <<>>, cache |-> cache, calls |-> <<DirectoryCall>>, raised |-> TRUE]
    ELSE Refreshed(SortItems(BuildItems(resp.body)), now_ts)

\* fetch_all_instances(force), run at time now_ts on cache `cache` with
\* credential `key`, when the vendor would answer `resp`. The result holds
\* the returned list, the cache afterwards and the vendor calls made.
\* resp.json() is inside the try block, so a body that is no JSON gives the
\* empty list; raw.get(...) is after it, so a body that is no JSON object
\* raises out of the function (`raised`, and then nothing is returned).
fetch_all_instances(force, cache, now_ts, key, resp) ==
    IF (~force) /\ cache.data # <<>> /\ (now_ts - cache.ts < TTL)
    THEN [ret |-> cache.data, cache |-> cache, calls |-> <<>>, raised |-> FALSE]
    ELSE IF ~Truthy(key)
    THEN [ret |-> <<>>, cache |-> cache, calls |-> <<>>, raised |-> FALSE]
    ELSE IF resp.exc \/ ~ok(resp) \/ resp.json = "unparsable"
    THEN [ret |-> <<>>, cache |-> cache, calls |-> <<DirectoryCall>>, raised |-> FALSE]
    ELSE IF resp.json = "array"
    THEN [ret |-> <<>>, cache |-> cache, calls |-> <<DirectoryCall>>, raised |-> TRUE]
    ELSE Refreshed(SortItems(BuildItems(resp.body)), now_ts)

\* Lines 111-115 of current_instance_id, given what fetch_all_instances
\* returned: the first entry's id, else the fallback.
FirstOrDefault(r) ==
    [ret |-> IF r.ret # <<>> THEN r.ret[1].id ELSE DEFAULT_INSTANCE_ID,
     cache |-> r.cache, calls |-> r.calls, listed |-> TRUE, list |-> r.ret,
     raised |-> r.raised]

\* A resolution that honours the cookie only while its id is a member of
\* the directory.
current_instance_id_checked(jar, cache, now_ts, key, resp) ==
    IF /\ Truthy(Get(jar, "instance_id", None))
       /\ \E i \in 1..Len(fetch_all_instances(FALSE, cache, now_ts, key, resp).ret) :
              fetch_all_instances(FALSE, cache, now_ts, key, resp).ret[i].id
                  = Get(jar, "instance_id", None)
    THEN [ret |-> Get(jar, "instance_id", None),
          cache |-> fetch_all_instances(FALSE, cache, now_ts, key, resp).cache,
          calls |-> fetch_all_instances(FALSE, cache, now_ts, key, resp).calls,
          listed |-> TRUE,
          list |-> fetch_all_instances(FALSE, cache, now_ts, key, resp).ret,
          raised |-> fetch_all_instances(FALSE, cache, now_ts, key, resp).raised]
    ELSE FirstOrDefault(fetch_all_instances(FALSE, cache, now_ts, key, resp))

\* current_instance_id(req): the cookie when it is set, else the first
\* directory entry, else the fallback. `list` is what the inner
\* fetch_all_instances returned, when `listed` says it was called.
current_instance_id(jar, cache, now_ts, key, resp) ==
    IF Truthy(Get(jar, "instance_id", None))
    THEN [ret |-> Get(jar, "instance_id", None), cache |-> cache, calls |-> <<>>,
          listed |-> FALSE, list |-> <<>>, raised |-> FALSE]
    ELSE FirstOrDefault(fetch_all_instances(FALSE, cache, now_ts, key, resp))

\* ---------------------------------------------------------------- session gate

\* A gate that accepts any non-empty token.
is_authorized_nonempty(jar) == Get(jar, "auth_ok", <<>>) # <<>>

\* is_authorized(req): the auth_ok cookie equals "yes".
is_authorized(jar) == Get(jar, "auth_ok", <<>>) = YES

\* check_pin(submitted_pin)
check_pin(submitted_pin) == submitted_pin = ACCESS_PIN

\* ---------------------------------------------------------------- control client

\* The faults Flask's abort raises: abort(400, ...) and abort(500, ...).
NoFault == "none"
BadRequest == "400 Invalid action"
ServerError == "500 EEG_API_KEY is not set on the server"

\* Lines 194-200 of eeg_post: the pair (ok, msg) for the vendor's answer;
\* msg keeps the text and the status it carries.
PostOutcome(action, cmdResp) ==
    IF cmdResp.exc
    THEN <<FALSE, [text |-> "Request error", status |-> 0]>>
    ELSE IF ok(cmdResp)
    THEN IF action = "turn_on"
         THEN <<TRUE, [text |-> "Lexi Live started", status |-> 0]>>
         ELSE <<TRUE, [text |-> "Lexi Live stopped", status |-> 0]>>
    ELSE <<FALSE, [text |-> "Request failed", status |-> cmdResp.status_code]>>

\* A command that is posted a second time when the first attempt fails in
\* transport.
Posted_retrying(c, action, cmdResp) ==
    [fault |-> NoFault, ret |-> PostOutcome(action, cmdResp), cache |-> c.cache,
     calls |-> c.calls \o <<CommandCall(c.ret, action)>>
               \o (IF cmdResp.exc THEN <<CommandCall(c.ret, action)>> ELSE <<>>),
     cid |-> c.ret, listed |-> c.listed, list |-> c.list]

\* Lines 179-200 of eeg_post, given the resolved instance c: one POST to
\* /instances/{cid}/{action}.
Posted(c, action, cmdResp) ==
    [fault |-> NoFault, ret |-> PostOutcome(action, cmdResp), cache |-> c.cache,
     calls |-> c.calls \o <<CommandCall(c.ret, action)>>,
     cid |-> c.ret, listed |-> c.listed, list |-> c.list]

\* eeg_post with the credential checked before the action.
eeg_post_key_first(action, jar, cache, now_ts, key, dirResp, cmdResp) ==
    IF ~Truthy(key)
    THEN [fault |-> ServerError, ret |-> <<>>, cache |-> cache, calls |-> <<>>,
          cid |-> None, listed |-> FALSE, list |-> <<>>]
    ELSE IF action \notin {"turn_on", "turn_off"}
    THEN [fault |-> BadRequest, ret |-> <<>>, cache |-> cache, calls |-> <<>>,
          cid |-> None, listed |-> FALSE, list |-> <<>>]
    ELSE Posted(current_instance_id(jar, cache, now_ts, key, dirResp), action, cmdResp)

\* eeg_post(action). A fault is an abort: nothing is returned (ret is
\* empty). Otherwise ret is the pair (ok, msg).
eeg_post(action, jar, cache, now_ts, key, dirResp, cmdResp) ==
    IF action \notin {"turn_on", "turn_off"}
    THEN [fault |-> BadRequest, ret |-> <<>>, cache |-> cache, calls |-> <<>>,
          cid |-> None, listed |-> FALSE, list |-> <<>>]
    ELSE IF ~Truthy(key)
    THEN [fault |-> ServerError, ret |-> <<>>, cache |-> cache, calls |-> <<>>,
          cid |-> None, listed |-> FALSE, list |-> <<>>]
    ELSE Posted(current_instance_id(jar, cache, now_ts, key, dirResp), action, cmdResp)

\* The placeholders of eeg_status.
NoInstanceFound == <<"(No instance found)">>
UnknownInstance == <<"Unknown instance">>
UNKNOWN == <<"U", "N", "K", "N", "O", "W", "N">>

\* No record: the None that fetch_instance_info returns.
NoInfo == [found |-> FALSE, inst |-> Inst(None, None, None)]

\* Lines 147-150 of fetch_instance_info: the first record of the vendor's
\* list whose instance_id is active_id.
RECURSIVE Scan(_, _)
Scan(records, active_id) ==
    IF records = <<>> THEN NoInfo
    ELSE IF Head(records).instance_id = active_id
    THEN [found |-> TRUE, inst |-> Head(records)]
    ELSE Scan(Tail(records), active_id)

\* Lines 145-150 of fetch_instance_info, given the resolved instance c:
\* the scan raises when resolving the instance raised, and when the body is
\* no JSON object (data.get).
Scanned(c, resp) ==
    [info |-> IF c.raised \/ resp.json = "array" THEN NoInfo ELSE Scan(resp.body, c.ret),
     cache |-> c.cache,
     calls |-> <<DirectoryCall>> \o c.calls, cid |-> c.ret, list |-> c.list,
     raised |-> c.raised \/ resp.json = "array"]

\* A lookup that takes the vendor's first record, whatever its id.
fetch_instance_info_first(jar, cache, now_ts, key, resp) ==
    IF ~Truthy(key) \/ resp.exc \/ ~ok(resp) \/ resp.json # "object" \/ resp.body = <<>>
    THEN [info |-> NoInfo, cache |-> cache, calls |-> <<>>, cid |-> None, list |-> <<>>,
          raised |-> FALSE]
    ELSE [info |-> [found |-> TRUE, inst |-> resp.body[1]],
          cache |-> current_instance_id(jar, cache, now_ts, key, resp).cache,
          calls |-> <<DirectoryCall>> \o current_instance_id(jar, cache, now_ts, key, resp).calls,
          cid |-> current_instance_id(jar, cache, now_ts, key, resp).ret,
          list |-> current_instance_id(jar, cache, now_ts, key, resp).list,
          raised |-> FALSE]

\* fetch_instance_info(): the vendor's record of the active instance. The
\* active instance is resolved only after the vendor has answered; cid is
\* None when it was not resolved. resp.json() is outside the try block: a
\* body that is no JSON raises out of the function.
fetch_instance_info(jar, cache, now_ts, key, resp) ==
    IF ~Truthy(key)
    THEN [info |-> NoInfo, cache |-> cache, calls |-> <<>>, cid |-> None, list |-> <<>>,
          raised |-> FALSE]
    ELSE IF resp.exc \/ ~ok(resp)
    THEN [info |-> NoInfo, cache |-> cache, calls |-> <<DirectoryCall>>, cid |-> None,
          list |-> <<>>, raised |-> FALSE]
    ELSE IF resp.json = "unparsable"
    THEN [info |-> NoInfo, cache |-> cache, calls |-> <<DirectoryCall>>, cid |-> None,
          list |-> <<>>, raised |-> TRUE]
    ELSE Scanned(current_instance_id(jar, cache, now_ts, key, resp), resp)

\* Lines 158-164 of eeg_status, given what fetch_instance_info returned
\* (nothing is returned when it raised).
StatusOf(f) ==
    [ret |-> IF f.raised THEN <<>>
             ELSE IF ~f.info.found
             THEN <<NoInstanceFound, UNKNOWN>>
             ELSE <<Get(f.info.inst, "name", UnknownInstance),
                    Get(f.info.inst, "state", UNKNOWN)>>,
     cache |-> f.cache, calls |-> f.calls, cid |-> f.cid, list |-> f.list,
     raised |-> f.raised]

\* eeg_status(): (instance_name, instance_state)
eeg_status(jar, cache, now_ts, key, resp) ==
    StatusOf(fetch_instance_info(jar, cache, now_ts, key, resp))

\* The pill colours of pick_badge_color.
GREEN == "#28a745"
RED == "#dc3545"
GREY == "#6c757d"

\* The state texts pick_badge_color knows.
GreenStates == {<<"O", "N">>, <<"R", "U", "N", "N", "I", "N", "G">>,
                <<"A", "C", "T", "I", "V", "E">>}
RedStates == {<<"O", "F", "F">>, <<"S", "T", "O", "P", "P", "E", "D">>,
              <<"I", "D", "L", "E">>}

\* A classification that compares the state text as it is written.
pick_badge_color_cased(state_text) ==
    IF (IF Truthy(state_text) THEN state_text ELSE UNKNOWN) \in GreenStates THEN GREEN
    ELSE IF (IF Truthy(state_text) THEN state_text ELSE UNKNOWN) \in RedStates THEN RED
    ELSE GREY

\* pick_badge_color(state_text): st_upper = (state_text or "UNKNOWN").upper()
pick_badge_color(state_text) ==
    IF upper(IF Truthy(state_text) THEN state_text ELSE UNKNOWN) \in GreenStates THEN GREEN
    ELSE IF upper(IF Truthy(state_text) THEN state_text ELSE UNKNOWN) \in RedStates THEN RED
    ELSE GREY

\* Lines 519-522 of render_home, given the status s and the directory l:
\* the active instance to mark as selected.
HomeSelected(s, l, c) ==
    [status |-> s.ret, shown |-> s.cid, instances |-> l.ret, selected |-> c.ret,
     cache |-> c.cache, calls |-> s.calls \o l.calls \o c.calls]

\* Lines 514-522 of render_home, given the status s: the selector built
\* from the directory.
HomeListed(s, l, jar, now_ts, key, resp) ==
    HomeSelected(s, l, current_instance_id(jar, l.cache, now_ts, key, resp))

HomeStatus(s, jar, now_ts, key, resp) ==
    HomeListed(s, fetch_all_instances(FALSE, s.cache, now_ts, key, resp),
               jar, now_ts, key, resp)

\* render_home(): the status, then the selector, then the selected entry.
render_home(jar, cache, now_ts, key, resp) ==
    HomeStatus(eeg_status(jar, cache, now_ts, key, resp), jar, now_ts, key, resp)

\* ---------------------------------------------------------------- scheduling

\* The text block of a booking record is a sequence whose elements are the
\* field markers, the line terminator and single characters of text.
SUMMARY == "SUMMARY:"
DESCRIPTION == "DESCRIPTION:"
DTSTART == "DTSTART;TZID=Australia/Sydney:"
DTEND == "DTEND;TZID=Australia/Sydney:"
CRLF == "\r\n"

\* marker = f"{tag};TZID=Australia/Sydney:"
Marker(tag) == IF tag = "DTSTART" THEN DTSTART ELSE DTEND

\* The title of a record without a usable SUMMARY.
DefaultTitle == <<"LEXI Booking">>

\* The display zone is UTC+10: a wall-clock time there is that many hours
\* ahead of the epoch time. Times are counted in hours.
SydneyOffset == 10

\* marker in ics
Contains(ics, marker) == \E i \in 1..Len(ics) : ics[i] = marker

\* ics.split(marker, 1)[1]: what follows the first occurrence of marker.
RECURSIVE AfterFirst(_, _)
AfterFirst(ics, marker) ==
    IF ics = <<>> THEN <<>>
    ELSE IF Head(ics) = marker THEN Tail(ics)
    ELSE AfterFirst(Tail(ics), marker)

\* text.split("\r\n", 1)[0]: what precedes the first line terminator.
RECURSIVE FirstLine(_)
FirstLine(text) ==
    IF text = <<>> \/ Head(text) = CRLF THEN <<>>
    ELSE <<Head(text)>> \o FirstLine(Tail(text))

\* ics.split(marker, 1)[1].split("\r\n", 1)[0].strip()
FieldText(ics, marker) == strip(FirstLine(AfterFirst(ics, marker)))

\* A title that is not trimmed.
Title_untrimmed(ics) ==
    IF Contains(ics, SUMMARY) /\ FieldText(ics, SUMMARY) # <<>>
    THEN FirstLine(AfterFirst(ics, SUMMARY))
    ELSE DefaultTitle

\* The title of a record: the trimmed SUMMARY line when it is not empty.
Title(ics) ==
    IF Contains(ics, SUMMARY) /\ FieldText(ics, SUMMARY) # <<>>
    THEN FieldText(ics, SUMMARY)
    ELSE DefaultTitle

\* The description of a record: the trimmed DESCRIPTION line, else empty.
Description(ics) ==
    IF Contains(ics, DESCRIPTION) /\ FieldText(ics, DESCRIPTION) # <<>>
    THEN FieldText(ics, DESCRIPTION)
    ELSE <<>>

Digits == <<"0", "1", "2", "3", "4", "5", "6", "7", "8", "9">>
IsDigit(c) == \E i \in 1..10 : Digits[i] = c
DigitValue(c) == (CHOOSE i \in 1..10 : Digits[i] = c) - 1

\* Whether text has the fixed compact format, here a day digit, "T" and an
\* hour digit (strptime raises ValueError when it has not).
Compact(text) ==
    Len(text) = 3 /\ IsDigit(text[1]) /\ text[2] = "T" /\ IsDigit(text[3])

\* datetime.strptime(raw, "%Y%m%dT%H%M%S") of a text in that format: the
\* wall-clock time, in hours.
strptime(raw) == 24 * DigitValue(raw[1]) + DigitValue(raw[3])

\* extract_dt(tag): the localized time of the marker's line, as a list of
\* one time, or None, the empty list, when the marker is absent or its line
\* does not parse. tz.localize keeps the wall-clock time.
extract_dt(ics, tag) ==
    IF Contains(ics, Marker(tag)) /\ Compact(FieldText(ics, Marker(tag)))
    THEN <<strptime(FieldText(ics, Marker(tag)))>>
    ELSE <<>>

\* A numeric field of a record: absent (or null), a number of hours since
\* the epoch, or a value fromtimestamp cannot convert (a string, a number
\* out of range).
Absent == [kind |-> "absent", value |-> 0]
Epoch(n) == [kind |-> "number", value |-> n]
NoEpoch == [kind |-> "text", value |-> 0]

\* datetime.datetime.fromtimestamp(epoch, tz): the wall-clock time in the
\* display zone.
fromtimestamp(epoch) == epoch + SydneyOffset

\* A fallback that prefers the numeric field to the marker's time.
Fallback_numeric_first(dt, epoch) ==
    IF epoch.kind = "number"
    THEN [raised |-> FALSE, dt |-> <<fromtimestamp(epoch.value)>>]
    ELSE IF dt # <<>> THEN [raised |-> FALSE, dt |-> dt]
    ELSE IF epoch.kind = "absent" THEN [raised |-> FALSE, dt |-> <<>>]
    ELSE [raised |-> TRUE, dt |-> <<>>]

\* The numeric fallback of one bound: it applies when the marker gave no
\* time and the field is not None, and raises when the field does not
\* convert.
Fallback(dt, epoch) ==
    IF dt # <<>> THEN [raised |-> FALSE, dt |-> dt]
    ELSE IF epoch.kind = "absent" THEN [raised |-> FALSE, dt |-> <<>>]
    ELSE IF epoch.kind = "number"
    THEN [raised |-> FALSE, dt |-> <<fromtimestamp(epoch.value)>>]
    ELSE [raised |-> TRUE, dt |-> <<>>]

\* ev.get("ics", "") or ""
IcsOf(ev) == IF ev.ics = None THEN <<>> ELSE ev.ics

\* datetime.isoformat() of a time in the display zone.
isoformat(dt) == [date |-> dt \div 24, hour |-> dt % 24, utcoffset |-> SydneyOffset]

\* An event that is emitted once its start is resolved, also without end.
CalEvent_partial(ics, s, e) ==
    IF s.raised \/ e.raised THEN [raised |-> TRUE, rows |-> <<>>]
    ELSE IF s.dt = <<>> THEN [raised |-> FALSE, rows |-> <<>>]
    ELSE [raised |-> FALSE,
          rows |-> << [title |-> Title(ics),
                       start |-> [i \in 1..Len(s.dt) |-> isoformat(s.dt[i])],
                       end |-> [i \in 1..Len(e.dt) |-> isoformat(e.dt[i])],
                       description |-> Description(ics)] >>]

\* Lines 1002-1019 of events_feed, given the text block and the two bounds
\* after the fallback: nothing is appended when a bound is unresolved.
CalEvent(ics, s, e) ==
    IF s.raised \/ e.raised THEN [raised |-> TRUE, rows |-> <<>>]
    ELSE IF s.dt = <<>> \/ e.dt = <<>> THEN [raised |-> FALSE, rows |-> <<>>]
    ELSE [raised |-> FALSE,
          rows |-> << [title |-> Title(ics),
                       start |-> [i \in 1..Len(s.dt) |-> isoformat(s.dt[i])],
                       end |-> [i \in 1..Len(e.dt) |-> isoformat(e.dt[i])],
                       description |-> Description(ics)] >>]

\* The body of the loop of events_feed for one record.
FeedRow(ev) ==
    CalEvent(IcsOf(ev),
             Fallback(extract_dt(IcsOf(ev), "DTSTART"), ev.start_time),
             Fallback(extract_dt(IcsOf(ev), "DTEND"), ev.end_time))

\* A loop that puts each event in front of those emitted before it.
RECURSIVE FeedRows_reversed(_)
FeedRows_reversed(events) ==
    IF events = <<>> THEN [raised |-> FALSE, rows |-> <<>>]
    ELSE IF FeedRow(Head(events)).raised \/ FeedRows_reversed(Tail(events)).raised
    THEN [raised |-> TRUE, rows |-> <<>>]
    ELSE [raised |-> FALSE,
          rows |-> FeedRows_reversed(Tail(events)).rows \o FeedRow(Head(events)).rows]

\* The loop of events_feed over data["events"]: an exception in one record
\* ends the request.
RECURSIVE FeedRows(_)
FeedRows(events) ==
    IF events = <<>> THEN [raised |-> FALSE, rows |-> <<>>]
    ELSE IF FeedRow(Head(events)).raised \/ FeedRows(Tail(events)).raised
    THEN [raised |-> TRUE, rows |-> <<>>]
    ELSE [raised |-> FALSE,
          rows |-> FeedRow(Head(events)).rows \o FeedRows(Tail(events)).rows]

\* Lines 437-457 of get_upcoming_events, given the text block and the two
\* bounds after the fallback: the date of the start and the hours of start
\* and end, as strftime prints them.
TableRow(ics, s, e) ==
    IF s.raised \/ e.raised THEN [raised |-> TRUE, rows |-> <<>>]
    ELSE IF s.dt = <<>> \/ e.dt = <<>> THEN [raised |-> FALSE, rows |-> <<>>]
    ELSE [raised |-> FALSE,
          rows |-> << [date_str |-> s.dt[1] \div 24,
                       time_str |-> <<s.dt[1] % 24, e.dt[1] % 24>>,
                       title |-> Title(ics),
                       description |-> Description(ics)] >>]

\* A loop body that resolves the bounds from the markers alone.
UpcomingRow_markers_only(ev) ==
    TableRow(IcsOf(ev),
             Fallback(extract_dt(IcsOf(ev), "DTSTART"), Absent),
             Fallback(extract_dt(IcsOf(ev), "DTEND"), Absent))

\* The body of the loop of get_upcoming_events for one record.
UpcomingRow(ev) ==
    TableRow(IcsOf(ev),
             Fallback(extract_dt(IcsOf(ev), "DTSTART"), ev.start_time),
             Fallback(extract_dt(IcsOf(ev), "DTEND"), ev.end_time))

\* A loop that puts each row in front of those emitted before it.
RECURSIVE UpcomingRows_reversed(_)
UpcomingRows_reversed(events) ==
    IF events = <<>> THEN [raised |-> FALSE, rows |-> <<>>]
    ELSE IF UpcomingRow(Head(events)).raised \/ UpcomingRows_reversed(Tail(events)).raised
    THEN [raised |-> TRUE, rows |-> <<>>]
    ELSE [raised |-> FALSE,
          rows |-> UpcomingRows_reversed(Tail(events)).rows \o UpcomingRow(Head(events)).rows]

\* The loop of get_upcoming_events over data["events"].
RECURSIVE UpcomingRows(_)
UpcomingRows(events) ==
    IF events = <<>> THEN [raised |-> FALSE, rows |-> <<>>]
    ELSE IF UpcomingRow(Head(events)).raised \/ UpcomingRows(Tail(events)).raised
    THEN [raised |-> TRUE, rows |-> <<>>]
    ELSE [raised |-> FALSE,
          rows |-> UpcomingRow(Head(events)).rows \o UpcomingRows(Tail(events)).rows]

\* The outcomes of GET /events as the routes meet them.
EventsOutcomes == {TransportFailure, Response(200, <<>>), Response(503, <<>>)}

\* What the processing of a response body ended in.
Processed(r) == [ret |-> r.rows, calls |-> <<EventsCall>>, raised |-> r.raised]

\* get_upcoming_events(): without credential no call is made; a transport
\* failure and a non-success response give the empty list; resp.json() and
\* data.get are outside the try block.
get_upcoming_events(key, resp) ==
    IF ~Truthy(key) THEN [ret |-> <<>>, calls |-> <<>>, raised |-> FALSE]
    ELSE IF resp.exc \/ ~ok(resp)
    THEN [ret |-> <<>>, calls |-> <<EventsCall>>, raised |-> FALSE]
    ELSE IF resp.json # "object"
    THEN [ret |-> <<>>, calls |-> <<EventsCall>>, raised |-> TRUE]
    ELSE Processed(UpcomingRows(resp.body))

\* s.replace("Z", "")
RECURSIVE WithoutZ(_)
WithoutZ(s) ==
    IF s = <<>> THEN <<>>
    ELSE (IF Head(s) = "Z" THEN <<>> ELSE <<Head(s)>>) \o WithoutZ(Tail(s))

\* Whether tz.localize(parse_iso_loose(s)) succeeds: the text without "Z"
\* is an ISO date and time (here in the compact form) that carries no
\* offset. fromisoformat raises on any other text, and localize raises on a
\* time that has an offset (written here with a closing "+").
Localizable(s) == Compact(WithoutZ(IF s = None THEN <<>> ELSE s))

\* What the client puts in ?start= and ?end= as the routes meet it: a
\* bound is missing, a bound is no ISO date, or both are ISO dates.
Windows ==
    { [start |-> None, end |-> <<"1", "T", "0">>],
      [start |-> <<"x">>, end |-> <<"1", "T", "0">>],
      [start |-> <<"0", "T", "0">>, end |-> <<"1", "T", "0", "Z">>] }

\* A feed that fails on a window it cannot parse.
fetch_events_strict(window, resp) ==
    IF ~Truthy(window.start) \/ ~Truthy(window.end)
    THEN [ret |-> <<>>, calls |-> <<>>, raised |-> FALSE]
    ELSE IF ~Localizable(window.start) \/ ~Localizable(window.end)
    THEN [ret |-> <<>>, calls |-> <<>>, raised |-> TRUE]
    ELSE IF resp.exc \/ ~ok(resp)
    THEN [ret |-> <<>>, calls |-> <<EventsCall>>, raised |-> FALSE]
    ELSE IF resp.json # "object"
    THEN [ret |-> <<>>, calls |-> <<EventsCall>>, raised |-> TRUE]
    ELSE Processed(FeedRows(resp.body))

\* The events of events_feed for the window of the request: a missing or
\* unparsable bound gives the empty list before any call; the credential is
\* not looked at; a transport failure and a non-success response give the
\* empty list; resp.json() and data.get are outside the try block.
fetch_events(window, resp) ==
    IF ~Truthy(window.start) \/ ~Truthy(window.end)
    THEN [ret |-> <<>>, calls |-> <<>>, raised |-> FALSE]
    ELSE IF ~Localizable(window.start) \/ ~Localizable(window.end)
    THEN [ret |-> <<>>, calls |-> <<>>, raised |-> FALSE]
    ELSE IF resp.exc \/ ~ok(resp)
    THEN [ret |-> <<>>, calls |-> <<EventsCall>>, raised |-> FALSE]
    ELSE IF resp.json # "object"
    THEN [ret |-> <<>>, calls |-> <<EventsCall>>, raised |-> TRUE]
    ELSE Processed(FeedRows(resp.body))

\* ---------------------------------------------------------------- state

\* The cookie jar of a client that holds no cookie of this application.
NoCookies == [auth_ok |-> None, instance_id |-> None]

\* resp.set_cookie(name, value)
set_cookie(jar, name, value) == [jar EXCEPT ![name] = value]

\* The worker threads of the process that may run a request at the same
\* time.
Threads == {1, 2}

\* A thread that is not inside fetch_all_instances. Its locals: the force
\* argument, now_ts, the items built from the vendor's answer, and the
\* number of the refresh it is performing (0 while it performs none).
Idle == [pc |-> "idle", force |-> FALSE, now_ts |-> 0, items |-> <<>>, refresh |-> 0]

\* No operation yet.
NoReq == [op |-> "none", t |-> 0]

\* The state after start-up: the cache as the module creates it, the
\* credential configured or not, and a client whose auth_ok cookie is
\* missing or holds something other than the accepted value.
Init ==
    /\ cookies \in {NoCookies, [NoCookies EXCEPT !.auth_ok = <<"Y", "E", "S">>]}
    /\ _instances_cache = [ts |-> 0, data |-> <<>>]
    /\ API_KEY \in {None, <<"k">>}
    /\ now = StartTime
    /\ vendorDir \in VendorDirs
    /\ req = NoReq
    /\ seq = 0
    /\ sends = 0
    /\ posts = 0
    /\ threads = [t \in Threads |-> Idle]
    /\ writer = [data |-> 0, ts |-> 0, refreshes |-> 0, stamp |-> 0]

\* Time passes: one second short of the cache lifetime, or all of it.
Tick ==
    /\ \E d \in {TTL - 1, TTL} :
          /\ now + d <= MaxTime
          /\ now' = now + d
    /\ UNCHANGED <<cookies, _instances_cache, API_KEY, vendorDir, req, seq, sends, posts, threads, writer>>

\* Instances are created, renamed or removed at the vendor.
VendorChange ==
    /\ \E dir \in VendorDirs \ {vendorDir} : vendorDir' = dir
    /\ UNCHANGED <<cookies, _instances_cache, API_KEY, now, req, seq, sends, posts, threads, writer>>

\* How the vendor answered, for the record of an operation.
Kind(resp) ==
    IF resp.exc THEN "transport" ELSE IF ok(resp) THEN "success" ELSE "non_success"

\* ---------------------------------------------------------------- SpecDir

\* The record of a direct call of fetch_all_instances.
Listed(force, resp, r) ==
    /\ _instances_cache' = r.cache
    /\ req' = [op |-> "list_instances", t |-> now, force |-> force,
               vendor |-> Kind(resp), ret |-> r.ret, calls |-> r.calls]

\* list_instances(force), called directly.
ListInstances ==
    /\ \E force \in BOOLEAN, resp \in DirectoryOutcomes(vendorDir) :
          Listed(force, resp, fetch_all_instances(force, _instances_cache, now, API_KEY, resp))
    /\ seq' = 1 - seq
    /\ UNCHANGED <<cookies, API_KEY, now, vendorDir, sends, posts, threads, writer>>

\* The ids a caller may hand to resolve_active_instance: none, the empty
\* string, an id the vendor knows and one it never knew.
ClientIds == {None, <<>>, IdP, <<"x">>}

\* The record of a direct call of current_instance_id.
Resolved(cid, r) ==
    /\ _instances_cache' = r.cache
    /\ req' = [op |-> "resolve_active_instance", t |-> now, cid |-> cid,
               ret |-> r.ret, calls |-> r.calls, listed |-> r.listed, list |-> r.list]

\* resolve_active_instance(client_supplied_id), called directly.
ResolveActive ==
    /\ \E cid \in ClientIds, resp \in DirectoryOutcomes(vendorDir) :
          Resolved(cid, current_instance_id(set_cookie(NoCookies, "instance_id", cid),
                                            _instances_cache, now, API_KEY, resp))
    /\ seq' = 1 - seq
    /\ UNCHANGED <<cookies, API_KEY, now, vendorDir, sends, posts, threads, writer>>

NextDir == ListInstances \/ ResolveActive \/ Tick \/ VendorChange

SpecDir == Init /\ [][NextDir]_vars

\* ---------------------------------------------------------------- SpecCmd

\* The command requests among a sequence of vendor calls.
Commands(calls) == SelectSeq(calls, LAMBDA c : c.endpoint = "command")

\* The actions a caller may hand to send_command.
Actions == {"turn_on", "turn_off", "reboot"}

\* The record of a direct call of eeg_post.
Sent(action, cmdResp, r) ==
    /\ _instances_cache' = r.cache
    /\ req' = [op |-> "send_command", t |-> now, action |-> action,
               vendor |-> Kind(cmdResp), status_code |-> cmdResp.status_code,
               fault |-> r.fault, ret |-> r.ret, calls |-> r.calls, target |-> r.cid]
    /\ sends' = IF action \in {"turn_on", "turn_off"} /\ API_KEY # None
                THEN sends + 1 ELSE sends
    /\ posts' = posts + Len(Commands(r.calls))

\* send_command(action) for the instance of a request with cookie cid,
\* called directly.
SendCommand ==
    /\ sends < MaxCmds
    /\ \E action \in Actions, cid \in ClientIds,
          dirResp \in DirectoryOutcomes(vendorDir), cmdResp \in CommandOutcomes :
          Sent(action, cmdResp,
               eeg_post(action, set_cookie(NoCookies, "instance_id", cid),
                        _instances_cache, now, API_KEY, dirResp, cmdResp))
    /\ seq' = 1 - seq
    /\ UNCHANGED <<cookies, API_KEY, now, vendorDir, threads, writer>>

NextCmd == SendCommand \/ Tick \/ VendorChange

SpecCmd == Init /\ [][NextCmd]_vars

\* ---------------------------------------------------------------- SpecRead

\* The outcomes of GET /instances, those included in which a success
\* response carries a body of another shape than the vendor documents.
ReadOutcomes(dir) == DirectoryOutcomes(dir) \cup {Unparsable, NotAnObject}

\* The record of a direct call of eeg_status.
StatusGot(cid, resp, r) ==
    /\ _instances_cache' = r.cache
    /\ req' = [op |-> "get_status", t |-> now, cid |-> cid,
               vendor |-> Kind(resp), json |-> resp.json, body |-> resp.body,
               ret |-> r.ret, raised |-> r.raised, calls |-> r.calls, target |-> r.cid]

\* get_status() for the instance of a request with cookie cid, called
\* directly.
GetStatus ==
    /\ \E cid \in ClientIds, resp \in ReadOutcomes(vendorDir) :
          StatusGot(cid, resp,
                    eeg_status(set_cookie(NoCookies, "instance_id", cid),
                               _instances_cache, now, API_KEY, resp))
    /\ seq' = 1 - seq
    /\ UNCHANGED <<cookies, API_KEY, now, vendorDir, sends, posts, threads, writer>>

\* The record of a direct call of fetch_all_instances, whatever the shape
\* of the vendor's answer.
DirectoryRead(force, resp, r) ==
    /\ _instances_cache' = r.cache
    /\ req' = [op |-> "list_instances", t |-> now, force |-> force,
               vendor |-> Kind(resp), json |-> resp.json,
               ret |-> r.ret, raised |-> r.raised, calls |-> r.calls]

\* list_instances(force), called directly, whatever the shape of the
\* vendor's answer.
ReadDirectory ==
    /\ \E force \in BOOLEAN, resp \in ReadOutcomes(vendorDir) :
          DirectoryRead(force, resp,
                        fetch_all_instances(force, _instances_cache, now, API_KEY, resp))
    /\ seq' = 1 - seq
    /\ UNCHANGED <<cookies, API_KEY, now, vendorDir, sends, posts, threads, writer>>

\* The state texts handed to classify_badge: absent, empty, the known
\* states in several spellings, the placeholder, an unknown state and a
\* known state with a blank in front.
StateTexts ==
    { None, <<>>, UNKNOWN,
      <<"O", "N">>, <<"o", "n">>, <<"O", "n">>,
      <<"r", "u", "n", "n", "i", "n", "g">>, <<"A", "c", "t", "i", "v", "e">>,
      <<"O", "F", "F">>, <<"o", "f", "f">>, <<"S", "t", "o", "p", "p", "e", "d">>,
      <<"i", "d", "l", "e">>, <<"I", "D", "L", "E">>,
      <<"p", "a", "u", "s", "e", "d">>, <<" ", "O", "N">>, <<"O", "N", "N">> }

\* classify_badge(state), called directly.
ClassifyBadge ==
    /\ \E state \in StateTexts :
          req' = [op |-> "classify_badge", t |-> now, state |-> state,
                  ret |-> pick_badge_color(state)]
    /\ seq' = 1 - seq
    /\ UNCHANGED <<cookies, _instances_cache, API_KEY, now, vendorDir, sends, posts,
                   threads, writer>>

NextRead == GetStatus \/ ReadDirectory \/ ClassifyBadge \/ Tick \/ VendorChange

SpecRead == Init /\ [][NextRead]_vars

\* ---------------------------------------------------------------- SpecSched

\* A booking record of the vendor's "events".
Booking(ics, start_time, end_time) ==
    [ics |-> ics, start_time |-> start_time, end_time |-> end_time]

\* A booking with all four fields in its text block, the title written
\* with blanks around it, and a numeric start that differs from the marker.
TeamSync ==
    Booking(<<SUMMARY, " ", "T", " ", CRLF, DESCRIPTION, "d", CRLF,
              DTSTART, "1", "T", "2", CRLF, DTEND, "1", "T", "3", CRLF>>,
            Epoch(0), Absent)

\* A booking without text block whose bounds are numeric; it starts at the
\* epoch.
NumericOnly == Booking(None, Epoch(0), Epoch(1))

\* A booking whose DESCRIPTION precedes an empty SUMMARY, whose start
\* marker does not parse (the numeric start takes over) and whose text
\* block ends without line terminator.
Mixed ==
    Booking(<<DESCRIPTION, "d", CRLF, SUMMARY, " ", CRLF,
              DTSTART, "x", CRLF, DTEND, "0", "T", "9">>,
            Epoch(2), Absent)

\* A booking with a start and nothing that gives an end.
NoEnd == Booking(<<SUMMARY, "T", CRLF>>, Epoch(5), Absent)

\* A booking whose start marker does not parse and whose numeric start is
\* no number.
BadEpoch == Booking(<<DTSTART, "x", CRLF>>, NoEpoch, Epoch(1))

Bookings == {TeamSync, NumericOnly, Mixed, NoEnd, BadEpoch}

\* The vendor's answers to GET /events: up to two bookings in any order,
\* the failures, and success responses of another shape.
SchedOutcomes ==
    {TransportFailure, Response(503, <<>>), Unparsable, NotAnObject, Response(200, <<>>)}
    \cup {Response(200, <<a>>) : a \in Bookings}
    \cup {Response(200, <<a, b>>) : a \in Bookings, b \in Bookings}

\* The record of a direct call of get_upcoming_events.
UpcomingFetched(resp, r) ==
    req' = [op |-> "get_upcoming_events", t |-> now,
            vendor |-> Kind(resp), json |-> resp.json, body |-> resp.body,
            ret |-> r.ret, raised |-> r.raised, calls |-> r.calls]

\* The upcoming-jobs fetch, called directly.
FetchUpcoming ==
    /\ \E resp \in SchedOutcomes : UpcomingFetched(resp, get_upcoming_events(API_KEY, resp))
    /\ seq' = 1 - seq
    /\ UNCHANGED <<cookies, _instances_cache, API_KEY, now, vendorDir, sends, posts,
                   threads, writer>>

\* The texts a client may send as a window bound: none, the empty text,
\* no date, a date and time, the same with "Z", the same with an offset.
WindowTexts ==
    { None, <<>>, <<"x">>, <<"0", "T", "0">>, <<"1", "T", "0", "Z">>,
      <<"0", "T", "0", "+">> }

\* The windows of the feed: any text as start with a date as end, and a
\* date as start with no end or an end that is no date.
FeedWindows ==
    {[start |-> a, end |-> <<"1", "T", "0", "Z">>] : a \in WindowTexts}
    \cup {[start |-> <<"0", "T", "0">>, end |-> b] : b \in {None, <<"x">>}}

\* The record of a direct call of the calendar feed.
FeedFetched(window, resp, r) ==
    req' = [op |-> "fetch_events", t |-> now, window |-> window,
            vendor |-> Kind(resp), json |-> resp.json, body |-> resp.body,
            ret |-> r.ret, raised |-> r.raised, calls |-> r.calls]

\* fetch_events(window_start, window_end), the calendar feed, called
\* directly.
FetchFeed ==
    /\ \E window \in FeedWindows, resp \in SchedOutcomes :
          FeedFetched(window, resp, fetch_events(window, resp))
    /\ seq' = 1 - seq
    /\ UNCHANGED <<cookies, _instances_cache, API_KEY, now, vendorDir, sends, posts,
                   threads, writer>>

\* A window of the feed whose bounds both parse.
GoodWindow == [start |-> <<"0", "T", "0">>, end |-> <<"1", "T", "0", "Z">>]

\* The record of both fetches made on the same answer of the vendor.
BothFetched(resp, table, feed) ==
    req' = [op |-> "fetch_both", t |-> now,
            vendor |-> Kind(resp), json |-> resp.json, body |-> resp.body,
            table |-> table, feed |-> feed]

\* The upcoming-jobs fetch and the calendar feed, the feed for a window
\* it can parse, each called directly and answered by the vendor with the
\* same response.
FetchBoth ==
    /\ \E resp \in SchedOutcomes :
          BothFetched(resp, get_upcoming_events(API_KEY, resp),
                      fetch_events(GoodWindow, resp))
    /\ seq' = 1 - seq
    /\ UNCHANGED <<cookies, _instances_cache, API_KEY, now, vendorDir, sends, posts,
                   threads, writer>>

NextSched == FetchUpcoming \/ FetchFeed \/ FetchBoth

SpecSched == Init /\ [][NextSched]_vars

\* ---------------------------------------------------------------- SpecConc

\* fetch_all_instances run by the worker threads one step at a time: a
\* step is one read or one store of the shared cache, or the vendor call.
\* The interpreter may switch threads between any two of them.

\* What a step of thread t leaves alone.
Stepped(t) ==
    UNCHANGED <<cookies, API_KEY, now, vendorDir, req, seq, sends, posts>>

\* A request handler on thread t calls fetch_all_instances(force).
CallList(t) ==
    /\ threads[t].pc = "idle"
    /\ \E force \in BOOLEAN :
          threads' = [threads EXCEPT ![t] = [Idle EXCEPT !.pc = "66", !.force = force]]
    /\ UNCHANGED <<_instances_cache, writer>>
    /\ Stepped(t)

\* Line 66: now_ts = datetime.datetime.now().timestamp()
ReadClock(t) ==
    /\ threads[t].pc = "66"
    /\ threads' = [threads EXCEPT ![t].now_ts = now, ![t].pc = "67"]
    /\ UNCHANGED <<_instances_cache, writer>>
    /\ Stepped(t)

\* Line 67, first two operands: (not force) and _instances_cache["data"]
TestData(t) ==
    /\ threads[t].pc = "67"
    /\ threads' = [threads EXCEPT ![t].pc =
                      IF (~threads[t].force) /\ _instances_cache.data # <<>>
                      THEN "67ts" ELSE "70"]
    /\ UNCHANGED <<_instances_cache, writer>>
    /\ Stepped(t)

\* Line 67, last operand: now_ts - _instances_cache["ts"] < 60
TestAge(t) ==
    /\ threads[t].pc = "67ts"
    /\ threads' = [threads EXCEPT ![t].pc =
                      IF threads[t].now_ts - _instances_cache.ts < TTL
                      THEN "68" ELSE "70"]
    /\ UNCHANGED <<_instances_cache, writer>>
    /\ Stepped(t)

\* Line 68: return _instances_cache["data"]
ReturnCached(t) ==
    /\ threads[t].pc = "68"
    /\ threads' = [threads EXCEPT ![t] = Idle]
    /\ UNCHANGED <<_instances_cache, writer>>
    /\ Stepped(t)

\* Lines 70-71: without credential the empty list is returned.
TestKey(t) ==
    /\ threads[t].pc = "70"
    /\ threads' = [threads EXCEPT ![t] = IF ~Truthy(API_KEY) THEN Idle
                                         ELSE [threads[t] EXCEPT !.pc = "75"]]
    /\ UNCHANGED <<_instances_cache, writer>>
    /\ Stepped(t)

\* Lines 73-94: the vendor call; a failure returns the empty list, a
\* directory is built and sorted into the local `items`.
GetInstances(t) ==
    /\ threads[t].pc = "75"
    /\ \E resp \in DirectoryOutcomes(vendorDir) :
          IF resp.exc \/ ~ok(resp)
          THEN /\ threads' = [threads EXCEPT ![t] = Idle]
               /\ UNCHANGED writer
          ELSE /\ writer.refreshes < MaxRefreshes
               /\ threads' = [threads EXCEPT
                                 ![t].items = SortItems(BuildItems(resp.body)),
                                 ![t].refresh = writer.refreshes + 1,
                                 ![t].pc = "95"]
               /\ writer' = [writer EXCEPT !.refreshes = writer.refreshes + 1]
    /\ UNCHANGED _instances_cache
    /\ Stepped(t)

\* Line 95: _instances_cache["data"] = items
StoreData(t) ==
    /\ threads[t].pc = "95"
    /\ _instances_cache' = [_instances_cache EXCEPT !.data = threads[t].items]
    /\ writer' = [writer EXCEPT !.data = threads[t].refresh,
                                !.stamp = threads[t].now_ts]
    /\ threads' = [threads EXCEPT ![t].pc = "96"]
    /\ Stepped(t)

\* Line 96: _instances_cache["ts"] = now_ts
StoreTs(t) ==
    /\ threads[t].pc = "96"
    /\ _instances_cache' = [_instances_cache EXCEPT !.ts = threads[t].now_ts]
    /\ writer' = [writer EXCEPT !.ts = threads[t].refresh]
    /\ threads' = [threads EXCEPT ![t].pc = "97"]
    /\ Stepped(t)

\* Line 97: return items
ReturnItems(t) ==
    /\ threads[t].pc = "97"
    /\ threads' = [threads EXCEPT ![t] = Idle]
    /\ UNCHANGED <<_instances_cache, writer>>
    /\ Stepped(t)

NextConc ==
    \/ \E t \in Threads :
          \/ CallList(t) \/ ReadClock(t) \/ TestData(t) \/ TestAge(t) \/ ReturnCached(t)
          \/ TestKey(t) \/ GetInstances(t) \/ StoreData(t) \/ StoreTs(t) \/ ReturnItems(t)
    \/ Tick \/ VendorChange

SpecConc == Init /\ [][NextConc]_vars

\* ---------------------------------------------------------------- Spec: the routes

\* What every route leaves alone.
Served ==
    /\ seq' = 1 - seq
    /\ UNCHANGED <<API_KEY, now, vendorDir, sends, posts, threads, writer>>

\* A protected route answering a client it does not accept: the lock page,
\* a redirect to it or the 403 "locked" error, and nothing else.
Refuse(op, page) ==
    /\ req' = [op |-> op, t |-> now, token |-> cookies.auth_ok, page |-> page, calls |-> <<>>]
    /\ UNCHANGED <<cookies, _instances_cache>>

\* The record of a rendered home page.
HomeServed(r) ==
    /\ _instances_cache' = r.cache
    /\ req' = [op |-> "home", t |-> now, token |-> cookies.auth_ok,
               page |-> "home", calls |-> r.calls, selected |-> r.selected]
    /\ UNCHANGED cookies

\* GET /
home ==
    /\ \E resp \in DirectoryOutcomes(vendorDir) :
          IF ~is_authorized(cookies)
          THEN Refuse("home", "lock_page")
          ELSE HomeServed(render_home(cookies, _instances_cache, now, API_KEY, resp))
    /\ Served

\* What the selector form may post as instance_id: nothing, the empty
\* string, the vendor's ids (one padded with blanks) and an unknown id.
Candidates == {None, <<>>, IdP, IdQ, <<" ", "q", " ">>, <<"x">>}

\* A commit that stores the candidate without looking it up.
Selected_unchecked(candidate, iid, l) ==
    /\ _instances_cache' = l.cache
    /\ cookies' = set_cookie(cookies, "instance_id", iid)
    /\ req' = [op |-> "set_instance", t |-> now, token |-> cookies.auth_ok,
               page |-> "redirect_home", calls |-> l.calls,
               candidate |-> candidate, list |-> l.ret]

\* Lines 847-853 of set_instance, given the directory l: the cookie is set
\* when iid is the id of an entry.
Selected(candidate, iid, l) ==
    /\ _instances_cache' = l.cache
    /\ cookies' = IF \E i \in 1..Len(l.ret) : l.ret[i].id = iid
                  THEN set_cookie(cookies, "instance_id", iid)
                  ELSE cookies
    /\ req' = [op |-> "set_instance", t |-> now, token |-> cookies.auth_ok,
               page |-> "redirect_home", calls |-> l.calls,
               candidate |-> candidate, list |-> l.ret]

\* POST /set_instance
set_instance ==
    /\ \E candidate \in Candidates, resp \in DirectoryOutcomes(vendorDir) :
          IF ~is_authorized(cookies)
          THEN Refuse("set_instance", "lock_page")
          ELSE Selected(candidate,
                        strip(Get([instance_id |-> candidate], "instance_id", <<>>)),
                        fetch_all_instances(FALSE, _instances_cache, now, API_KEY, resp))
    /\ Served

\* The record of a rendered upcoming-jobs page.
UpcomingServed(r) ==
    /\ req' = [op |-> "upcoming", t |-> now, token |-> cookies.auth_ok,
               page |-> "upcoming", calls |-> r.calls, rows |-> r.ret]
    /\ UNCHANGED <<cookies, _instances_cache>>

\* GET /upcoming
upcoming_page ==
    /\ \E resp \in EventsOutcomes :
          IF ~is_authorized(cookies)
          THEN Refuse("upcoming", "redirect_lock")
          ELSE UpcomingServed(get_upcoming_events(API_KEY, resp))
    /\ Served

\* What the lock form may post as pin: nothing, the PIN, the PIN padded
\* with blanks, another PIN.
Pins == {None, ACCESS_PIN, <<" ">> \o ACCESS_PIN \o <<" ">>, <<"2", "0", "6", "6">>}

\* An unlock whose failure also clears the token.
Unlocked_clearing(pin, submitted_pin) ==
    /\ cookies' = IF check_pin(submitted_pin)
                  THEN set_cookie(cookies, "auth_ok", YES)
                  ELSE set_cookie(cookies, "auth_ok", <<>>)
    /\ req' = [op |-> "unlock", t |-> now, token |-> cookies.auth_ok,
               page |-> IF check_pin(submitted_pin) THEN "redirect_home" ELSE "lock_page",
               calls |-> <<>>, pin |-> pin]

\* Lines 866-871 of unlock.
Unlocked(pin, submitted_pin) ==
    /\ cookies' = IF check_pin(submitted_pin)
                  THEN set_cookie(cookies, "auth_ok", YES)
                  ELSE cookies
    /\ req' = [op |-> "unlock", t |-> now, token |-> cookies.auth_ok,
               page |-> IF check_pin(submitted_pin) THEN "redirect_home" ELSE "lock_page",
               calls |-> <<>>, pin |-> pin]

\* POST /unlock
unlock ==
    /\ \E pin \in Pins : Unlocked(pin, strip(Get([pin |-> pin], "pin", <<>>)))
    /\ UNCHANGED _instances_cache
    /\ Served

\* A lock that answers the lock page and leaves the cookie as it is.
relock_keeps_token ==
    /\ req' = [op |-> "lock", t |-> now, token |-> cookies.auth_ok,
               page |-> "lock_page", calls |-> <<>>]
    /\ UNCHANGED <<cookies, _instances_cache>>
    /\ Served

\* POST /lock
relock ==
    /\ cookies' = set_cookie(cookies, "auth_ok", <<>>)
    /\ req' = [op |-> "lock", t |-> now, token |-> cookies.auth_ok,
               page |-> "lock_page", calls |-> <<>>]
    /\ UNCHANGED _instances_cache
    /\ Served

\* The record of a command followed by the home page r.
TurnServed(op, p, r) ==
    /\ _instances_cache' = r.cache
    /\ req' = [op |-> op, t |-> now, token |-> cookies.auth_ok,
               page |-> "home", calls |-> p.calls \o r.calls,
               flash |-> p.ret[2].text, target |-> p.cid,
               list |-> p.list, shown |-> r.shown, selected |-> r.selected]
    /\ UNCHANGED cookies

\* Lines 885-886 and 893-894, given what eeg_post did: an abort ends the
\* request with that fault, otherwise the home page follows.
Turned(op, p, homeResp) ==
    IF p.fault # NoFault
    THEN /\ req' = [op |-> op, t |-> now, token |-> cookies.auth_ok,
                    page |-> p.fault, calls |-> p.calls]
         /\ UNCHANGED <<cookies, _instances_cache>>
    ELSE TurnServed(op, p, render_home(cookies, p.cache, now, API_KEY, homeResp))

\* The body of turn_on and turn_off. The vendor answers the directory
\* call of eeg_post with resp and those of render_home, which come after
\* the command, with homeResp.
Turn(op, action) ==
    /\ \E resp \in DirectoryOutcomes(vendorDir), homeResp \in DirectoryOutcomes(vendorDir),
          cmdResp \in CommandOutcomes :
          IF ~is_authorized(cookies)
          THEN Refuse(op, "lock_page")
          ELSE Turned(op, eeg_post(action, cookies, _instances_cache, now, API_KEY,
                                   resp, cmdResp), homeResp)
    /\ Served

\* POST /on
turn_on == Turn("on", "turn_on")

\* POST /off
turn_off == Turn("off", "turn_off")

\* The record of a status answer.
StatusServed(s) ==
    /\ _instances_cache' = s.cache
    /\ req' = [op |-> "status.json", t |-> now, token |-> cookies.auth_ok,
               page |-> "json", calls |-> s.calls, status |-> s.ret,
               target |-> s.cid, list |-> s.list]
    /\ UNCHANGED cookies

\* GET /status.json
status_json ==
    /\ \E resp \in DirectoryOutcomes(vendorDir) :
          IF ~is_authorized(cookies)
          THEN Refuse("status.json", "locked_403")
          ELSE StatusServed(eeg_status(cookies, _instances_cache, now, API_KEY, resp))
    /\ Served

\* GET /calendar
calendar_page ==
    /\ IF ~is_authorized(cookies)
       THEN Refuse("calendar", "lock_page")
       ELSE /\ req' = [op |-> "calendar", t |-> now, token |-> cookies.auth_ok,
                       page |-> "calendar", calls |-> <<>>]
            /\ UNCHANGED <<cookies, _instances_cache>>
    /\ Served

\* The record of a calendar feed answer.
EventsServed(r) ==
    /\ req' = [op |-> "events.json", t |-> now, token |-> cookies.auth_ok,
               page |-> "json", calls |-> r.calls, events |-> r.ret]
    /\ UNCHANGED <<cookies, _instances_cache>>

\* GET /events.json
events_feed ==
    /\ \E window \in Windows, resp \in EventsOutcomes :
          IF ~is_authorized(cookies)
          THEN Refuse("events.json", "locked_403")
          ELSE EventsServed(fetch_events(window, resp))
    /\ Served

Next ==
    \/ home \/ set_instance \/ upcoming_page \/ unlock \/ relock
    \/ turn_on \/ turn_off \/ status_json \/ calendar_page \/ events_feed
    \/ Tick \/ VendorChange

Spec == Init /\ [][Next]_vars

\* ---------------------------------------------------------------- claims

\* The routes behind the session gate.
ProtectedOps ==
    {"home", "set_instance", "upcoming", "on", "off", "status.json", "calendar", "events.json"}

\* What a protected route answers to a client it does not accept.
Refusals == {"lock_page", "redirect_lock", "locked_403"}

\* The value a form field holds once the route has read and trimmed it.
Trimmed(v) == strip(IF v = None THEN <<>> ELSE v)

\* The ids of a list of directory entries.
IdsOf(items) == {items[i].id : i \in 1..Len(items)}

\* C1: a protected route called with a token other than "yes" makes no
\* vendor call: no command, no directory or status fetch, no events fetch.
C1_NoVendorCallWhenLocked ==
    (req.op \in ProtectedOps /\ req.token # YES)
        => (req.calls = <<>> /\ req.page \in Refusals)

\* C1 witness: a start command arrived with the token "YES" while the
\* credential is configured, and was refused.
C1_Witness ==
    /\ req.op = "on"
    /\ req.token = <<"Y", "E", "S">>
    /\ API_KEY # None
    /\ req.page = "lock_page"

\* C2: a lock empties the token whatever it was; a client that is not
\* accepted becomes accepted only by an unlock with the configured PIN; and
\* while it is not accepted every protected route refuses it.
C2_LockedUntilUnlock ==
    [][ /\ (seq' # seq /\ req'.op = "lock") => cookies'.auth_ok = <<>>
        /\ (cookies.auth_ok # YES /\ cookies'.auth_ok = YES)
              => (req'.op = "unlock" /\ Trimmed(req'.pin) = ACCESS_PIN)
        /\ (seq' # seq /\ req'.op \in ProtectedOps /\ cookies.auth_ok # YES)
              => (req'.page \in Refusals /\ req'.calls = <<>>)
      ]_vars

\* C2 witness: after an unlock and a lock (only a lock leaves the empty
\* token), a status request is refused.
C2_Witness ==
    /\ req.op = "status.json"
    /\ req.token = <<>>
    /\ req.page = "locked_403"

\* C3: the token changes only by an unlock with the configured PIN, to
\* "yes", and by a lock, to empty; an unlock with another PIN changes no
\* cookie, also for an accepted client.
C3_TokenFrame ==
    [][ /\ (cookies'.auth_ok # cookies.auth_ok)
              => \/ /\ req'.op = "unlock"
                    /\ Trimmed(req'.pin) = ACCESS_PIN
                    /\ cookies'.auth_ok = YES
                 \/ /\ req'.op = "lock"
                    /\ cookies'.auth_ok = <<>>
        /\ (seq' # seq /\ req'.op = "unlock" /\ Trimmed(req'.pin) # ACCESS_PIN)
              => cookies' = cookies
      ]_vars

\* C3 witness: an accepted client posted a wrong PIN and is still accepted.
C3_Witness ==
    /\ req.op = "unlock"
    /\ req.token = YES
    /\ Trimmed(req.pin) # ACCESS_PIN
    /\ cookies.auth_ok = YES

\* C4 as stated: whatever the vendor answers, two calls of
\* list_instances(force=false) in a row, less than 60 seconds apart, make
\* at most one directory call between them.
C4_AtMostOneCallAnyOutcome ==
    [][ ( /\ seq' # seq
          /\ req.op = "list_instances" /\ req'.op = "list_instances"
          /\ ~req.force /\ ~req'.force
          /\ req'.t - req.t < 60 )
        => Len(req.calls) + Len(req'.calls) <= 1
      ]_vars

\* C4 amended: when the first of two calls of list_instances(force=false)
\* in a row returned a non-empty directory and the second comes less than
\* 60 seconds later, the two make at most one directory call between them.
C4_AtMostOneCallAfterNonEmpty ==
    [][ ( /\ seq' # seq
          /\ req.op = "list_instances" /\ req'.op = "list_instances"
          /\ ~req.force /\ ~req'.force
          /\ req.ret # <<>>
          /\ req'.t - req.t < 60 )
        => Len(req.calls) + Len(req'.calls) <= 1
      ]_vars

\* C4 witness: a call without force was answered from the cache 59 seconds
\* after the refresh that filled it.
C4_Witness ==
    /\ req.op = "list_instances"
    /\ ~req.force
    /\ req.calls = <<>>
    /\ req.ret # <<>>
    /\ req.t - _instances_cache.ts = 59

\* C5 as stated: a list_instances that called the vendor and got a
\* transport failure or a non-success response returns the snapshot that
\* was cached before the call (which is empty only if none was cached).
C5_StaleSnapshotOnFailure ==
    [][ ( /\ seq' # seq
          /\ req'.op = "list_instances"
          /\ req'.calls # <<>>
          /\ req'.vendor \in {"transport", "non_success"} )
        => req'.ret = _instances_cache.data
      ]_vars

\* Whether items are in non-decreasing order of lower-cased name.
SortedByLowerName(items) ==
    \A i \in 1..Len(items), j \in 1..Len(items) :
        i < j => ~StrLess(lower(items[j].name), lower(items[i].name))

\* C6: resolve_active_instance returns a non-empty client id as it is,
\* without listing the directory; for an absent or empty client id it lists
\* the directory without force and returns the id of the first entry, the
\* list being in case-insensitive name order; and the fallback id when the
\* list is empty.
C6_ResolutionPolicy ==
    req.op = "resolve_active_instance" =>
        /\ Truthy(req.cid) => (req.ret = req.cid /\ ~req.listed /\ req.calls = <<>>)
        /\ ~Truthy(req.cid) =>
              /\ req.listed
              /\ SortedByLowerName(req.list)
              /\ req.list # <<>> => req.ret = req.list[1].id
              /\ req.list = <<>> => req.ret = DEFAULT_INSTANCE_ID

\* C6 witness: with an empty client id the entry named "a" was returned
\* ahead of the entry named "B", which the vendor lists first.
C6_Witness ==
    /\ req.op = "resolve_active_instance"
    /\ req.cid = <<>>
    /\ Len(req.list) = 2
    /\ req.ret = IdQ
    /\ vendorDir[1].instance_id = IdP

\* The routes that address the vendor for the active instance, once they
\* have resolved it: a start or stop command, a status query.
Addressed(r) ==
    \/ r.op \in {"on", "off"} /\ r.page = "home"
    \/ r.op = "status.json" /\ r.page = "json" /\ r.target # None

\* C7 as stated: a command or status query is addressed only to an id that
\* is a member of the directory (as the vendor holds it, or as cached
\* before or after the request) or is the fallback id.
C7_OnlyMembersAddressed ==
    [][ (seq' # seq /\ Addressed(req'))
        => req'.target \in IdsOf(BuildItems(vendorDir))
                           \cup IdsOf(_instances_cache.data)
                           \cup IdsOf(_instances_cache'.data)
                           \cup {DEFAULT_INSTANCE_ID}
      ]_vars

\* C7 amended: a command or status query is addressed to the id in the
\* client's instance_id cookie whenever that is non-empty, member of the
\* directory or not; only without it to the first entry of the directory
\* listed for the request, or to the fallback id when that list is empty.
C7_CookieElseFirstElseDefault ==
    Addressed(req) =>
        /\ req.target = IF Truthy(cookies.instance_id) THEN cookies.instance_id
                        ELSE IF req.list # <<>> THEN req.list[1].id
                        ELSE DEFAULT_INSTANCE_ID
        /\ req.op \in {"on", "off"} =>
              \E i \in 1..Len(req.calls) :
                  /\ req.calls[i].endpoint = "command"
                  /\ req.calls[i].id = req.target

\* C7 witness: a start command went to the selected id p after the vendor
\* had removed p and the cache had been refreshed without it.
C7_Witness ==
    /\ req.op = "on"
    /\ req.page = "home"
    /\ req.target = IdP
    /\ cookies.instance_id = IdP
    /\ _instances_cache.data # <<>>
    /\ IdP \notin IdsOf(_instances_cache.data)
    /\ IdP \notin IdsOf(BuildItems(vendorDir))

\* C8: the instance_id cookie changes only in an accepted set_instance
\* request, to the trimmed candidate, which is then the id of an entry of
\* the directory listed for that request; a set_instance whose trimmed
\* candidate is no such id changes no cookie and answers the usual
\* redirect.
C8_CommitOnlyMembers ==
    [][ /\ (cookies'.instance_id # cookies.instance_id)
              => /\ req'.op = "set_instance"
                 /\ req'.token = YES
                 /\ cookies'.instance_id = Trimmed(req'.candidate)
                 /\ cookies'.instance_id \in IdsOf(req'.list)
        /\ ( /\ seq' # seq
             /\ req'.op = "set_instance"
             /\ req'.token = YES
             /\ Trimmed(req'.candidate) \notin IdsOf(req'.list) )
              => (cookies' = cookies /\ req'.page = "redirect_home")
      ]_vars

\* C8 witness: an accepted client that had selected p posted the unknown
\* id x against a non-empty directory and still has p selected.
C8_Witness ==
    /\ req.op = "set_instance"
    /\ req.token = YES
    /\ req.candidate = <<"x">>
    /\ req.list # <<>>
    /\ cookies.instance_id = IdP

\* C9: send_command with an unrecognized action aborts with the caller
\* error, also when the credential is missing; with a recognized action and
\* no credential it aborts with the server error, which is another fault;
\* either abort comes before the instance is resolved and before any
\* vendor call, and returns no (ok, msg) pair.
C9_FatalChecks ==
    req.op = "send_command" =>
        /\ BadRequest # ServerError
        /\ req.action \notin {"turn_on", "turn_off"} =>
              /\ req.fault = BadRequest
              /\ req.calls = <<>> /\ req.ret = <<>> /\ req.target = None
        /\ (req.action \in {"turn_on", "turn_off"} /\ API_KEY = None) =>
              /\ req.fault = ServerError
              /\ req.calls = <<>> /\ req.ret = <<>> /\ req.target = None

\* C9 witness: an unrecognized action met a missing credential and was
\* answered with the caller error.
C9_Witness ==
    /\ req.op = "send_command"
    /\ req.action = "reboot"
    /\ API_KEY = None
    /\ req.fault = BadRequest

\* C10: every send_command with a recognized action and a credential makes
\* exactly one command request, to the resolved instance, so that the
\* vendor has received as many command requests as there were such calls;
\* a transport failure gives ok = false, a non-success response ok = false
\* with the status in the message, a success ok = true with a confirmation
\* that tells start from stop.
C10_OneCommandPerCall ==
    /\ posts = sends
    /\ (req.op = "send_command" /\ req.action \in {"turn_on", "turn_off"} /\ API_KEY # None)
        => /\ req.fault = NoFault
           /\ Commands(req.calls) = <<CommandCall(req.target, req.action)>>
           /\ req.vendor = "transport" => req.ret[1] = FALSE
           /\ req.vendor = "non_success" =>
                 (req.ret[1] = FALSE /\ req.ret[2].status = req.status_code)
           /\ req.vendor = "success" =>
                 /\ req.ret[1] = TRUE
                 /\ req.ret[2].text = IF req.action = "turn_on"
                                      THEN "Lexi Live started" ELSE "Lexi Live stopped"

\* C10 witness: the second of two accepted commands failed in transport,
\* and the vendor has received two command requests.
C10_Witness ==
    /\ req.op = "send_command"
    /\ req.vendor = "transport"
    /\ req.fault = NoFault
    /\ sends = 2
    /\ posts = 2

\* The first record of the vendor's list whose id is `id`, as a one-element
\* list, or the empty list.
RECURSIVE EntryOf(_, _)
EntryOf(records, id) ==
    IF records = <<>> THEN <<>>
    ELSE IF Head(records).instance_id = id THEN <<Head(records)>>
    ELSE EntryOf(Tail(records), id)

\* C11: get_status returns the name and state the vendor reports for the
\* entry whose id is the active instance id (the default name or the state
\* "UNKNOWN" where the entry reports none); it returns the placeholder
\* with state "UNKNOWN" when the credential is missing, the vendor call
\* fails in transport, the response is non-success or no entry has that
\* id; and in none of these cases does it raise.
C11_StatusOrPlaceholder ==
    (req.op = "get_status" /\ (API_KEY = None \/ req.json \in {"none", "object"})) =>
        /\ ~req.raised
        /\ (API_KEY = None \/ req.vendor \in {"transport", "non_success"})
              => (req.ret = <<NoInstanceFound, UNKNOWN>> /\ req.target = None)
        /\ (API_KEY # None /\ req.vendor = "success") =>
              /\ Truthy(req.cid) => req.target = req.cid
              /\ EntryOf(req.body, req.target) = <<>>
                    => req.ret = <<NoInstanceFound, UNKNOWN>>
              /\ EntryOf(req.body, req.target) # <<>>
                    => /\ req.ret[1] = (IF EntryOf(req.body, req.target)[1].name = None
                                        THEN UnknownInstance
                                        ELSE EntryOf(req.body, req.target)[1].name)
                       /\ req.ret[2] = (IF EntryOf(req.body, req.target)[1].state = None
                                        THEN UNKNOWN
                                        ELSE EntryOf(req.body, req.target)[1].state)

\* C11 witness: for a request without cookie the status of the second
\* record of the vendor's list was returned, that record being the first
\* entry of the directory.
C11_Witness ==
    /\ req.op = "get_status"
    /\ req.cid = None
    /\ req.target = IdQ
    /\ Len(req.body) = 2
    /\ req.body[2].instance_id = IdQ
    /\ req.ret = <<<<"a">>, <<"o", "f", "f">>>>

\* C12 as stated: no read operation raises, whatever the vendor answers.
C12_EveryErrorAbsorbed ==
    req.op \in {"get_status", "list_instances"} => ~req.raised

\* C18: classify_badge gives GREEN for ON, RUNNING and ACTIVE and RED for
\* OFF, STOPPED and IDLE in any mix of cases, and GREY for every other
\* input, the empty string, an absent state and "UNKNOWN" included; each
\* input has one colour.
C18_BadgeTotal ==
    req.op = "classify_badge" =>
        /\ req.ret \in {GREEN, RED, GREY}
        /\ GREEN # RED /\ RED # GREY /\ GREEN # GREY
        /\ req.ret = pick_badge_color(req.state)
        /\ req.ret = GREEN <=>
              (req.state # None /\ lower(req.state) \in
                  {<<"o", "n">>, <<"r", "u", "n", "n", "i", "n", "g">>,
                   <<"a", "c", "t", "i", "v", "e">>})
        /\ req.ret = RED <=>
              (req.state # None /\ lower(req.state) \in
                  {<<"o", "f", "f">>, <<"s", "t", "o", "p", "p", "e", "d">>,
                   <<"i", "d", "l", "e">>})
        /\ req.state \in {None, <<>>, UNKNOWN} => req.ret = GREY

\* C18 witness: the state "Stopped" was classified RED.
C18_Witness ==
    /\ req.op = "classify_badge"
    /\ req.state = <<"S", "t", "o", "p", "p", "e", "d">>
    /\ req.ret = RED

\* The two event fetches.
Fetches == {"fetch_events", "get_upcoming_events"}

\* A fetch that got a well-formed success response from the vendor.
Answered(r) ==
    r.op \in Fetches /\ r.calls # <<>> /\ r.vendor = "success" /\ r.json = "object"

\* The window bounds the feed can resolve to an instant.
GoodBounds == {<<"0", "T", "0">>, <<"1", "T", "0", "Z">>}

\* C13: fetch_events returns the empty sequence without raising when a
\* window bound is missing or cannot be parsed, and then makes no vendor
\* call; and when the scheduling call fails in transport or is answered
\* with a non-success response. So does the upcoming-jobs fetch on a
\* failed call.
C13_EmptyOnBadWindowOrFailure ==
    /\ (req.op = "fetch_events"
          /\ (req.window.start \notin GoodBounds \/ req.window.end \notin GoodBounds))
        => (req.ret = <<>> /\ ~req.raised /\ req.calls = <<>>)
    /\ (req.op = "fetch_events"
          /\ req.window.start \in GoodBounds /\ req.window.end \in GoodBounds
          /\ req.vendor \in {"transport", "non_success"})
        => (req.ret = <<>> /\ ~req.raised /\ req.calls = <<EventsCall>>)
    /\ (req.op = "get_upcoming_events" /\ API_KEY # None
          /\ req.vendor \in {"transport", "non_success"})
        => (req.ret = <<>> /\ ~req.raised /\ req.calls = <<EventsCall>>)

\* C13 witness: a feed request whose start is no date was answered with the
\* empty list, without a call, while the vendor held two bookings.
C13_Witness ==
    /\ req.op = "fetch_events"
    /\ req.window.start = <<"x">>
    /\ Len(req.body) = 2
    /\ req.ret = <<>>
    /\ req.calls = <<>>

\* The first place of marker in a text block that contains it.
FirstIndex(ics, marker) ==
    CHOOSE i \in 1..Len(ics) : ics[i] = marker /\ \A j \in 1..(i - 1) : ics[j] # marker

\* The place of the first line terminator after place k, or the place
\* after the end of the text block.
LineEnd(ics, k) ==
    IF \E j \in (k + 1)..Len(ics) : ics[j] = CRLF
    THEN CHOOSE j \in (k + 1)..Len(ics) :
             ics[j] = CRLF /\ \A i \in (k + 1)..(j - 1) : ics[i] # CRLF
    ELSE Len(ics) + 1

\* The trimmed text that follows the first marker up to the end of its
\* line; empty when the marker is absent.
MarkedText(ev, marker) ==
    IF ev.ics = None \/ ~Contains(IcsOf(ev), marker) THEN <<>>
    ELSE Trimmed(SubSeq(ev.ics, FirstIndex(ev.ics, marker) + 1,
                        LineEnd(ev.ics, FirstIndex(ev.ics, marker)) - 1))

\* Whether a bound of a record is resolved: its marker's text parses, or
\* its numeric field is present.
BoundResolved(ev, marker, field) ==
    Compact(MarkedText(ev, marker)) \/ field.kind # "absent"

\* Whether both bounds of a record are resolved.
Resolved2(ev) ==
    /\ BoundResolved(ev, DTSTART, ev.start_time)
    /\ BoundResolved(ev, DTEND, ev.end_time)

\* The records of a response body with both bounds resolved, in the
\* vendor's order.
Kept(body) == SelectSeq(body, Resolved2)

\* C14: every emitted event has a start and an end, and the events are as
\* many as the records whose start and end are both resolved by marker or
\* numeric field: a record with an unresolved bound gives no event.
C14_NoPartialEvent ==
    (Answered(req) /\ ~req.raised) =>
        /\ Len(req.ret) = Len(Kept(req.body))
        /\ req.op = "fetch_events" =>
              \A i \in 1..Len(req.ret) : req.ret[i].start # <<>> /\ req.ret[i].end # <<>>

\* C14 witness: of two bookings the feed emitted one, the other having a
\* start and no end.
C14_Witness ==
    /\ req.op = "fetch_events"
    /\ req.body = <<NoEnd, NumericOnly>>
    /\ ~req.raised
    /\ Len(req.ret) = 1

\* Whether a record is well formed: both bounds are resolved, and by a
\* marker that parses or a numeric field that converts.
WellFormed(ev) ==
    /\ Resolved2(ev)
    /\ Compact(MarkedText(ev, DTSTART)) \/ ev.start_time.kind = "number"
    /\ Compact(MarkedText(ev, DTEND)) \/ ev.end_time.kind = "number"

\* C15 as stated: a fetch that got a success response with a list of
\* records does not fail, whatever is wrong with one of the records, and
\* emits one event for each well-formed record.
C15_BadRecordSkipped ==
    Answered(req) =>
        (~req.raised /\ Len(req.ret) = Len(SelectSeq(req.body, WellFormed)))

\* The start of an emitted event or table row, in hours.
StartOf(op, e) ==
    IF op = "fetch_events" THEN 24 * e.start[1].date + e.start[1].hour
    ELSE 24 * e.date_str + e.time_str[1]

\* The start a record resolves to: the marker's time when it parses, else
\* the numeric field in the display zone.
ResolvedStart(ev) ==
    IF Compact(MarkedText(ev, DTSTART))
    THEN 24 * DigitValue(MarkedText(ev, DTSTART)[1]) + DigitValue(MarkedText(ev, DTSTART)[3])
    ELSE ev.start_time.value + SydneyOffset

\* C16 as stated: the emitted events are in non-decreasing order of start.
C16_TimeOrdered ==
    (Answered(req) /\ ~req.raised) =>
        \A i \in 1..Len(req.ret), j \in 1..Len(req.ret) :
            i < j => StartOf(req.op, req.ret[i]) <= StartOf(req.op, req.ret[j])

\* C16 amended: the emitted events are in the order of their records in
\* the vendor's response, each with the start its record resolves to; so
\* they are in non-decreasing order of start exactly when the vendor lists
\* the kept records in that order.
C16_VendorOrderKept ==
    (Answered(req) /\ ~req.raised) =>
        /\ Len(req.ret) = Len(Kept(req.body))
        /\ \A i \in 1..Len(req.ret) :
              StartOf(req.op, req.ret[i]) = ResolvedStart(Kept(req.body)[i])

\* C16 witness: the feed emitted two events, the later one first, as the
\* vendor listed them.
C16_Witness ==
    /\ req.op = "fetch_events"
    /\ Len(req.ret) = 2
    /\ StartOf(req.op, req.ret[1]) > StartOf(req.op, req.ret[2])

\* C17 as stated, for the event fetches: without credential both return
\* the empty sequence without raising, whatever the vendor would answer.
C17_SoftWithoutCredential ==
    (API_KEY = None /\ req.op \in Fetches) => (req.ret = <<>> /\ ~req.raised)

\* C19: the title of every emitted event is the trimmed text after the
\* SUMMARY marker up to the end of its line when the marker is present and
\* that text is not empty, and the placeholder title otherwise; the
\* description likewise from the DESCRIPTION marker, and empty otherwise;
\* a record with both bounds resolved is emitted whatever its title and
\* description are.
C19_TitleAndDescription ==
    (Answered(req) /\ ~req.raised) =>
        /\ Len(req.ret) = Len(Kept(req.body))
        /\ \A i \in 1..Len(req.ret) :
              /\ req.ret[i].title =
                    (IF MarkedText(Kept(req.body)[i], SUMMARY) # <<>>
                     THEN MarkedText(Kept(req.body)[i], SUMMARY) ELSE DefaultTitle)
              /\ req.ret[i].description = MarkedText(Kept(req.body)[i], DESCRIPTION)

\* C19 witness: a booking whose SUMMARY line is blank was emitted with the
\* placeholder title and its description, after one whose title was
\* trimmed.
C19_Witness ==
    /\ req.op = "get_upcoming_events"
    /\ req.body = <<TeamSync, Mixed>>
    /\ Len(req.ret) = 2
    /\ req.ret[1].title = <<"T">>
    /\ req.ret[2].title = DefaultTitle
    /\ req.ret[2].description = <<"d">>

\* C20 as stated: the snapshot and the timestamp in the cache come from the
\* same refresh, in every state in which no refresh stands between its two
\* stores.
C20_SnapshotAndStampTogether ==
    (\A t \in Threads : threads[t].pc # "96") => writer.data = writer.ts

\* C21 as stated: a thread about to return the cached snapshot (line 68)
\* entered fetch_all_instances fewer than 60 seconds after the start of the
\* refresh that fetched the snapshot now in the cache.
C21_StalenessBounded ==
    \A t \in Threads :
        threads[t].pc = "68" => threads[t].now_ts - writer.stamp < TTL

\* The vendor's records that have an id, in the vendor's order.
WithId(records) == SelectSeq(records, LAMBDA inst : Truthy(inst.instance_id))

\* Whether a list of directory entries is in case-insensitive name order
\* and every entry has a non-empty id.
WellOrdered(items) ==
    /\ \A i \in 1..(Len(items) - 1) :
          ~StrLess(lower(items[i + 1].name), lower(items[i].name))
    /\ \A i \in 1..Len(items) : items[i].id # None /\ items[i].id # <<>>

\* The entry the loop of line 87 makes of a vendor record that has an id.
NamedEntry(inst) ==
    [id |-> inst.instance_id,
     name |-> IF Truthy(inst.name) THEN inst.name ELSE inst.instance_id]

\* C22: the cached snapshot is always in non-decreasing case-insensitive
\* order of name and holds only entries with a non-empty id, and so is every
\* list that list_instances returns; a list fetched from the vendor has
\* exactly one entry for each of the vendor's records that has an id, named
\* by the record's name or, when it has none, by its id.
C22_SortedEntriesWithId ==
    /\ [](WellOrdered(_instances_cache.data))
    /\ [][(seq' # seq /\ req'.op = "list_instances") =>
            /\ WellOrdered(req'.ret)
            /\ (req'.calls # <<>> /\ req'.vendor = "success") =>
                  /\ Len(req'.ret) = Len(WithId(vendorDir))
                  /\ \A k \in 1..Len(WithId(vendorDir)) :
                        \E i \in 1..Len(req'.ret) :
                            req'.ret[i] = NamedEntry(WithId(vendorDir)[k])]_vars

\* C22 witness: of a record without name and a record without id the
\* refresh kept the first, named by its id, and cached it.
C22_Witness ==
    /\ req.op = "list_instances"
    /\ Len(vendorDir) = 2
    /\ vendorDir[2].instance_id = None
    /\ req.ret = <<[id |-> IdQ, name |-> IdQ]>>
    /\ _instances_cache.data = req.ret

\* The time a bound of a record resolves to, in hours, as a list of one
\* time: the marker's time when the marker's text parses, whatever the
\* numeric field holds; else the numeric field in the display zone; else
\* nothing.
ResolvedBound(ev, marker, field) ==
    IF Compact(MarkedText(ev, marker))
    THEN <<24 * DigitValue(MarkedText(ev, marker)[1]) + DigitValue(MarkedText(ev, marker)[3])>>
    ELSE IF field.kind = "number" THEN <<field.value + SydneyOffset>>
    ELSE <<>>

\* The end of an emitted event, in hours; of a table row, its hour of day.
EndOf(op, e) ==
    IF op = "fetch_events" THEN 24 * e.end[1].date + e.end[1].hour
    ELSE e.time_str[2]

\* The end as the fetch shows it: the feed in full, the table by hour of day.
ShownEnd(op, n) == IF op = "fetch_events" THEN n ELSE n % 24

\* C23: start and end of a record are resolved independently, each by the
\* same precedence: the time of its marker when the marker is present and
\* parses (the numeric field is then ignored, also when it differs), else
\* its numeric field, else it is unresolved and the record gives no event.
\* An emitted event carries the start of its record's start rule and the end
\* of its record's end rule, whatever the other bound's marker holds.
C23_BoundsResolvedIndependently ==
    (Answered(req) /\ ~req.raised) =>
        LET kept == SelectSeq(req.body,
                              LAMBDA ev : /\ ResolvedBound(ev, DTSTART, ev.start_time) # <<>>
                                          /\ ResolvedBound(ev, DTEND, ev.end_time) # <<>>)
        IN  /\ Len(req.ret) = Len(kept)
            /\ \A i \in 1..Len(req.ret) :
                  /\ <<StartOf(req.op, req.ret[i])>>
                        = ResolvedBound(kept[i], DTSTART, kept[i].start_time)
                  /\ EndOf(req.op, req.ret[i])
                        = ShownEnd(req.op, ResolvedBound(kept[i], DTEND, kept[i].end_time)[1])

\* C23 witness: the feed emitted a booking whose start marker parses and
\* differs from its numeric start, with the marker's start; and a booking
\* whose start marker does not parse, with the numeric start and the end of
\* its end marker.
C23_Witness ==
    /\ req.op = "fetch_events"
    /\ req.body = <<TeamSync, Mixed>>
    /\ Len(req.ret) = 2
    /\ StartOf(req.op, req.ret[1]) = 26
    /\ TeamSync.start_time = Epoch(0)
    /\ StartOf(req.op, req.ret[2]) = 2 + SydneyOffset
    /\ EndOf(req.op, req.ret[2]) = 9

\* Whether an emitted event is the event of a vendor record: it has the
\* record's title and description and the bounds the record resolves to.
EventOf(op, e, ev) ==
    /\ ResolvedBound(ev, DTSTART, ev.start_time) # <<>>
    /\ ResolvedBound(ev, DTEND, ev.end_time) # <<>>
    /\ e.title = (IF MarkedText(ev, SUMMARY) # <<>>
                  THEN MarkedText(ev, SUMMARY) ELSE DefaultTitle)
    /\ e.description = MarkedText(ev, DESCRIPTION)
    /\ <<StartOf(op, e)>> = ResolvedBound(ev, DTSTART, ev.start_time)
    /\ EndOf(op, e) = ShownEnd(op, ResolvedBound(ev, DTEND, ev.end_time)[1])

\* C24: the emitted sequence is an order-preserving subsequence of the
\* vendor's records: there is a strictly increasing mapping of the places
\* of the emitted events to places of the response, such that each event is
\* the event of the record at its place; so each event comes from one
\* record, each record gives at most one event, and no event is moved
\* before one whose record precedes its own.
C24_SubsequenceOfVendorOrder ==
    (Answered(req) /\ ~req.raised) =>
        /\ Len(req.ret) <= Len(req.body)
        /\ \E f \in [1..Len(req.ret) -> 1..Len(req.body)] :
              /\ \A i \in 1..Len(req.ret), j \in 1..Len(req.ret) : i < j => f[i] < f[j]
              /\ \A i \in 1..Len(req.ret) : EventOf(req.op, req.ret[i], req.body[f[i]])

\* C24 witness: the table got a booking that starts at hour 2 of day 1
\* before one that starts at hour 10 of day 0, and shows them in that
\* order.
C24_Witness ==
    /\ req.op = "get_upcoming_events"
    /\ req.body = <<TeamSync, NumericOnly>>
    /\ Len(req.ret) = 2
    /\ req.ret[1].date_str = 1
    /\ req.ret[2].date_str = 0

\* A call of list_instances that ended in failure: the credential is
\* missing, or the vendor call failed in transport, was answered with a
\* non-success response, or was answered with a body that is no JSON object.
ListFailed(r, key) ==
    /\ r.op = "list_instances"
    /\ \/ key = None
       \/ r.calls # <<>> /\ r.vendor \in {"transport", "non_success"}
       \/ r.calls # <<>> /\ r.json \in {"unparsable", "array"}

\* C25: a call of list_instances that ends in failure leaves the cached
\* snapshot and the cached timestamp as they were.
C25_FailureKeepsCache ==
    [][(seq' # seq /\ ListFailed(req', API_KEY)) =>
          (/\ _instances_cache'.data = _instances_cache.data
           /\ _instances_cache'.ts = _instances_cache.ts)]_vars

\* C25 witness: a forced refresh failed in transport when the cached
\* snapshot had expired, and the cache still holds that snapshot under its
\* old timestamp.
C25_Witness ==
    /\ ListFailed(req, API_KEY)
    /\ req.force
    /\ req.vendor = "transport"
    /\ req.calls = <<DirectoryCall>>
    /\ req.ret = <<>>
    /\ _instances_cache.data # <<>>
    /\ req.t - _instances_cache.ts >= TTL

\* C26 as stated: within one request that carries no client-supplied id,
\* every resolution of the active instance gives the same id: the instance
\* the command was sent to is the instance whose status the page shows
\* (when the status lookup resolved one) and the instance the selector
\* marks.
C26_OneInstancePerRequest ==
    [][(seq' # seq /\ req'.op \in {"on", "off"} /\ req'.page = "home"
          /\ ~Truthy(Get(cookies, "instance_id", None))) =>
          /\ req'.selected = req'.target
          /\ req'.shown # None => req'.shown = req'.target]_vars

\* C27: the two ingestion paths treat every raw record alike. Answered by
\* the vendor with the same response, the upcoming-jobs fetch and the
\* calendar feed both fail or both return; they return as many events, so
\* a record is dropped by both or kept by both; and the events at the same
\* place have the same title, description and start, and the same end as
\* far as the table shows it (its hour of day).
C27_PathsAgree ==
    (req.op = "fetch_both" /\ req.table.calls # <<>> /\ req.feed.calls # <<>>) =>
        /\ req.table.raised = req.feed.raised
        /\ Len(req.table.ret) = Len(req.feed.ret)
        /\ \A i \in 1..Len(req.table.ret) :
              /\ req.table.ret[i].title = req.feed.ret[i].title
              /\ req.table.ret[i].description = req.feed.ret[i].description
              /\ StartOf("get_upcoming_events", req.table.ret[i])
                    = StartOf("fetch_events", req.feed.ret[i])
              /\ EndOf("get_upcoming_events", req.table.ret[i])
                    = EndOf("fetch_events", req.feed.ret[i]) % 24

\* C27 witness: of a booking with numeric bounds and a booking without
\* end, both paths kept the first and dropped the second.
C27_Witness ==
    /\ req.op = "fetch_both"
    /\ req.body = <<NumericOnly, NoEnd>>
    /\ Len(req.table.ret) = 1
    /\ Len(req.feed.ret) = 1
    /\ req.table.ret[1].title = DefaultTitle
    /\ req.feed.ret[1].title = DefaultTitle

====
